---- MODULE Spec2Model ----
(***************************************************************************)
(* Row factorization of a sparse matrix oracle restricted to paired rows   *)
(* and columns (decomp_row_use_pairs) and its sparse accumulator merge     *)
(* (update_heap_hash).                                                     *)
(*                                                                         *)
(* Keys are small integers ordered by <.  Coefficients are elements of the *)
(* ring of integers modulo `modulus`, kept as residues 0..modulus-1.       *)
(* Hash maps are functions on a finite key set, binary heaps of            *)
(* Reverse(key) are bags of keys whose pop yields the smallest key.  Dense *)
(* indices are 0-based as in the source; sequences are 1-based, so index i *)
(* lives at position i+1.                                                  *)
(***************************************************************************)
EXTENDS Integers, Sequences, FiniteSets, Bags, TLC

NumMaj == 3
NumMin == 3
MaxWork == 3
MaxEntry == 2
MaxRowLen == 2

MajKeys == 1..NumMaj
MinKeys == 1..NumMin
Moduli == {2, 3, 4}

VARIABLES
    modulus,            \* matrix.ring(): RingSpec::Modulus(modulus)
    matrix,             \* the oracle: major key -> sparse row
    maj_to_reduce,      \* the worklist
    worklist,           \* the worklist as the caller passed it
    min_to_reduce,      \* the active minor set
    rowoper,            \* CSM: sequence of rows, row i at position i+1
    minkey_2_index, majkey_2_index, index_2_majkey, index_2_minkey,
    ordered_minind,     \* the Indexing
    heap_reduced, heap_rowoper, hash_reduced, hash_rowoper,
    row_reduced, row_rowoper,
    majkey,             \* the major key being reduced (0 before the first pop)
    scale,              \* the last elimination scale
    pc,                 \* "outer" | "inner" | "done" | "panic" | "merge" | "merged"
    step,               \* what the last step did: [kind, minkey, leading_entry] and
                        \* lead, the last nonzero leading key of this major key
    pre                 \* the accumulators and source rows as the last merge found them

vars == << modulus, matrix, maj_to_reduce, worklist, min_to_reduce, rowoper,
           minkey_2_index, majkey_2_index, index_2_majkey, index_2_minkey,
           ordered_minind, heap_reduced, heap_rowoper, hash_reduced,
           hash_rowoper, row_reduced, row_rowoper, majkey, scale, pc, step, pre >>

-----------------------------------------------------------------------------
(* Hash maps and heaps *)

EmptyHash == [k \in {} |-> 0]

Insert(hash, key, val) ==
    [k \in (DOMAIN hash) \cup {key} |-> IF k = key THEN val ELSE hash[k]]

Remove(hash, key) == [k \in (DOMAIN hash) \ {key} |-> hash[k]]

Push(heap, key) == heap (+) SetToBag({key})

HeapKeys(heap) == BagToSet(heap)

(* a heap without Reverse: the pop yields the largest key *)
Peek_Max(heap) == CHOOSE k \in HeapKeys(heap) : \A j \in HeapKeys(heap) : k >= j

Peek(heap) == CHOOSE k \in HeapKeys(heap) : \A j \in HeapKeys(heap) : k <= j

PopMin(heap) == heap (-) SetToBag({Peek(heap)})

(* Every order in which a hash map can yield its entries. *)
Drain(hash) ==
    LET n == Cardinality(DOMAIN hash)
        ords == {p \in [1..n -> DOMAIN hash] :
                    \A i, j \in 1..n : i # j => p[i] # p[j]}
    IN  {[i \in 1..n |-> <<p[i], hash[p[i]]>>] : p \in ords}

-----------------------------------------------------------------------------
(* The ring of integers modulo `modulus` *)

is_0(v) == v % modulus = 0

simplify(v) == v % modulus

Add(a, b) == (a + b) % modulus

Mul(a, b) == (a * b) % modulus

Neg(a) == (modulus - (a % modulus)) % modulus

(* <<w>> when v has the inverse w, << >> when it has none. *)
inverse(v) ==
    IF \E w \in 1..(modulus - 1) : (v * w) % modulus = 1
    THEN << CHOOSE w \in 1..(modulus - 1) : (v * w) % modulus = 1 >>
    ELSE << >>

IsField == \A v \in 1..(modulus - 1) : inverse(v) # << >>

-----------------------------------------------------------------------------
(* update_heap_hash that leaves a key whose sum became zero in the hash *)
RECURSIVE update_heap_hash_NoRemove(_, _, _, _)
update_heap_hash_NoRemove(heap, hash, rowseq, sc) ==
    IF rowseq = << >> THEN [heap |-> heap, hash |-> hash]
    ELSE
      LET key == rowseq[1][1]
          value == Mul(sc, rowseq[1][2])
          rest == Tail(rowseq)
      IN  IF key \in DOMAIN hash
          THEN update_heap_hash_NoRemove(
                   heap, [hash EXCEPT ![key] = Add(hash[key], value)], rest, sc)
          ELSE IF ~ is_0(value)
               THEN update_heap_hash_NoRemove(
                        Push(heap, key), Insert(hash, key, value), rest, sc)
               ELSE update_heap_hash_NoRemove(heap, hash, rest, sc)

(* update_heap_hash that inserts a new key without pushing it onto the heap *)
RECURSIVE update_heap_hash_NoPush(_, _, _, _)
update_heap_hash_NoPush(heap, hash, rowseq, sc) ==
    IF rowseq = << >> THEN [heap |-> heap, hash |-> hash]
    ELSE
      LET key == rowseq[1][1]
          value == Mul(sc, rowseq[1][2])
          rest == Tail(rowseq)
      IN  IF key \in DOMAIN hash
          THEN LET x == Add(hash[key], value)
               IN  IF is_0(x)
                   THEN update_heap_hash_NoPush(heap, Remove(hash, key), rest, sc)
                   ELSE update_heap_hash_NoPush(heap, [hash EXCEPT ![key] = x], rest, sc)
          ELSE IF ~ is_0(value)
               THEN update_heap_hash_NoPush(heap, Insert(hash, key, value), rest, sc)
               ELSE update_heap_hash_NoPush(heap, hash, rest, sc)

(* update_heap_hash that returns as soon as an entry cancels *)
RECURSIVE update_heap_hash_StopAtZero(_, _, _, _)
update_heap_hash_StopAtZero(heap, hash, rowseq, sc) ==
    IF rowseq = << >> THEN [heap |-> heap, hash |-> hash]
    ELSE
      LET key == rowseq[1][1]
          value == simplify(Mul(rowseq[1][2], sc))
          rest == Tail(rowseq)
      IN  IF key \in DOMAIN hash
          THEN LET x == Add(hash[key], value)
               IN  IF is_0(x)
                   THEN [heap |-> heap, hash |-> Remove(hash, key)]
                   ELSE update_heap_hash_StopAtZero(heap, [hash EXCEPT ![key] = x], rest, sc)
          ELSE IF ~ is_0(value)
               THEN update_heap_hash_StopAtZero(
                        Push(heap, key), Insert(hash, key, value), rest, sc)
               ELSE update_heap_hash_StopAtZero(heap, hash, rest, sc)

(* update_heap_hash that adds the source value without the scale *)
RECURSIVE update_heap_hash_NoScale(_, _, _, _)
update_heap_hash_NoScale(heap, hash, rowseq, sc) ==
    IF rowseq = << >> THEN [heap |-> heap, hash |-> hash]
    ELSE
      LET key == rowseq[1][1]
          value == rowseq[1][2]
          rest == Tail(rowseq)
      IN  IF key \in DOMAIN hash
          THEN LET x == Add(hash[key], value)
               IN  IF is_0(x)
                   THEN update_heap_hash_NoScale(heap, Remove(hash, key), rest, sc)
                   ELSE update_heap_hash_NoScale(heap, [hash EXCEPT ![key] = x], rest, sc)
          ELSE IF ~ is_0(value)
               THEN update_heap_hash_NoScale(
                        Push(heap, key), Insert(hash, key, value), rest, sc)
               ELSE update_heap_hash_NoScale(heap, hash, rest, sc)

(* update_heap_hash: rowseq is the source row in the order drain() yields it *)

RECURSIVE update_heap_hash(_, _, _, _)
update_heap_hash(heap, hash, rowseq, sc) ==
    IF rowseq = << >> THEN [heap |-> heap, hash |-> hash]
    ELSE
      LET key == rowseq[1][1]
          val == rowseq[1][2]
          value == Mul(sc, val)
          rest == Tail(rowseq)
      IN  IF key \in DOMAIN hash
          THEN LET x == Add(hash[key], value)
               IN  IF is_0(x)
                   THEN update_heap_hash(heap, Remove(hash, key), rest, sc)
                   ELSE update_heap_hash(heap, [hash EXCEPT ![key] = x], rest, sc)
          ELSE IF ~ is_0(value)
               THEN update_heap_hash(Push(heap, key), Insert(hash, key, value), rest, sc)
               ELSE update_heap_hash(heap, hash, rest, sc)

(* add_assign_hash: the same merge without a heap *)
add_assign_hash(hash, row, sc) ==
    LET sum(k) == Add(IF k \in DOMAIN hash THEN hash[k] ELSE 0, Mul(sc, row[k]))
        keys == ((DOMAIN hash) \ (DOMAIN row))
                  \cup {k \in DOMAIN row : ~ is_0(sum(k))}
    IN  [k \in keys |-> IF k \in DOMAIN row THEN sum(k) ELSE hash[k]]

-----------------------------------------------------------------------------
(* The pieces of decomp_row_use_pairs *)

nummaj == Len(rowoper)

(* a pop that takes the smallest major key of the worklist *)
Pop_Smallest(w) ==
    LET i == CHOOSE x \in 1..Len(w) :
                 /\ \A y \in 1..Len(w) : w[x] <= w[y]
                 /\ \A y \in 1..(x - 1) : w[y] # w[x]
    IN  [key |-> w[i], rest |-> SubSeq(w, 1, i - 1) \o SubSeq(w, i + 1, Len(w))]

(* a pop that takes the first element of the worklist *)
Pop_Front(w) == [key |-> w[1], rest |-> Tail(w)]

(* a pop that reads the last element and leaves it in the worklist *)
Pop_Peek(w) == [key |-> w[Len(w)], rest |-> w]

(* maj_to_reduce.pop(): the last element and what stays *)
Pop(w) == [key |-> w[Len(w)], rest |-> SubSeq(w, 1, Len(w) - 1)]

(* the oracle row filtered by the range the active minor keys span *)
Restrict_Range(row) ==
    [k \in {j \in DOMAIN row : \E a, b \in min_to_reduce : a <= j /\ j <= b}
        |-> row[k]]

(* the oracle row loaded without the min_to_reduce filter *)
Restrict_Unfiltered(row) == row

(* the oracle row filtered with the test inverted *)
Restrict_Inverted(row) == [k \in (DOMAIN row) \ min_to_reduce |-> row[k]]

(* the oracle row of a major key, filtered by min_to_reduce.contains *)
Restrict(row) == [k \in (DOMAIN row) \cap min_to_reduce |-> row[k]]

(* the load loop over matrix.maj_itr(&majkey), in the order rowseq: push and
   insert every entry whose key is in min_to_reduce *)
RECURSIVE LoadRow(_, _, _)
LoadRow(heap, hash, rowseq) ==
    IF rowseq = << >> THEN [heap |-> heap, hash |-> hash]
    ELSE LET key == rowseq[1][1]
             val == rowseq[1][2]
         IN  IF key \in DOMAIN Restrict(Insert(EmptyHash, key, val))
             THEN LoadRow(Push(heap, key), Insert(hash, key, val), Tail(rowseq))
             ELSE LoadRow(heap, hash, Tail(rowseq))

(* rowoper.maj_hash(&index) *)
maj_hash(index) == rowoper[index + 1]

(* the self-entry pushed at the index after the new row's *)
PivotRow_SelfAfter(hash, index) == Insert(hash, index + 1, 1)

(* the row appended without its self-entry *)
PivotRow_NoSelf(hash, index) == hash

(* push_snzval(nummaj, one) followed by append_maj(&mut hash_rowoper) *)
PivotRow(hash, index) == Insert(hash, index, 1)

(* index_2_majkey[*majind] is out of bounds for some entry of the row *)
IndexOutOfBounds(oprow) == \E majind \in DOMAIN oprow : majind >= Len(index_2_majkey)

(* the reconstruction loop over row_rowoper.iter(), in the order opseq *)
(* a reconstruction that adds every oracle row with coefficient one *)
RECURSIVE ReconstructRow_Unscaled(_, _)
ReconstructRow_Unscaled(acc, opseq) ==
    IF opseq = << >> THEN acc
    ELSE LET majind == opseq[1][1]
             row == Restrict(matrix[index_2_majkey[majind + 1]])
         IN  ReconstructRow_Unscaled(add_assign_hash(acc, row, 1), Tail(opseq))

(* row_reduced rebuilt from the stored row of the row-operation matrix *)
RECURSIVE ReconstructRow(_, _)
ReconstructRow(acc, opseq) ==
    IF opseq = << >> THEN acc
    ELSE LET majind == opseq[1][1]
             snzval == opseq[1][2]
             row == Restrict(matrix[index_2_majkey[majind + 1]])
         IN  ReconstructRow(add_assign_hash(acc, row, snzval), Tail(opseq))

(* the scale without the negation *)
Scale_NoNeg(leading_entry, inv) == simplify(Mul(leading_entry, inv))

(* scale = simplify(-leading_entry * inverse) *)
Scale(leading_entry, inv) == simplify(Mul(Neg(leading_entry), inv))

(* a failed inverse taken for the multiplicative identity *)
ScaleOption_Unchecked(leading_entry, dominator) ==
    IF inverse(dominator) = << >> THEN << Scale(leading_entry, 1) >>
    ELSE << Scale(leading_entry, inverse(dominator)[1]) >>

(* matrix.ring().inverse(&dominator) and, when it succeeds, the scale:
   <<scale>> or << >> *)
ScaleOption(leading_entry, dominator) ==
    IF inverse(dominator) = << >> THEN << >>
    ELSE << Scale(leading_entry, inverse(dominator)[1]) >>

(* ordered_minind filled with the indices in discovery order, unsorted *)
PopAll_Unsorted(heap, out) ==
    out \o [i \in 1..Len(index_2_minkey) |-> minkey_2_index[index_2_minkey[i]]]

(* the closing loop that fills ordered_minind from the heap of minor keys *)
RECURSIVE PopAll(_, _)
PopAll(heap, out) ==
    IF heap = EmptyBag THEN out
    ELSE PopAll(PopMin(heap), Append(out, minkey_2_index[Peek(heap)]))

RECURSIVE PushAll(_, _)
PushAll(heap, keys) ==
    IF keys = << >> THEN heap ELSE PushAll(Push(heap, Head(keys)), Tail(keys))

NoPre == [heap |-> EmptyBag, hash |-> EmptyHash, row |-> EmptyHash,
          oprow |-> EmptyHash, ophash |-> EmptyHash]

-----------------------------------------------------------------------------
(* Inputs *)

(* sparse rows: at most MaxRowLen stored entries, each an integer of
   1..MaxEntry read as an element of the ring *)
Rows(m) ==
    UNION {[S -> {e % m : e \in 1..MaxEntry}] :
              S \in {T \in SUBSET MinKeys : Cardinality(T) <= MaxRowLen}}

(* Major keys are only hashed and compared for equality, so worklists are
   taken up to renaming of the major keys: the first key popped is 1, and
   each later new key is the next unused one. *)
InPopOrder(w) ==
    \A i \in 1..Len(w) :
        w[i] <= 1 + Cardinality({w[j] : j \in (i + 1)..Len(w)})

Worklists == {w \in UNION {[1..n -> MajKeys] : n \in 0..MaxWork} : InPopOrder(w)}

(* Only the rows of major keys in the worklist are ever fetched; the other
   rows are left empty. *)
Oracles(m, w) ==
    LET asked == {w[i] : i \in 1..Len(w)}
    IN  {[key \in MajKeys |-> IF key \in asked THEN f[key] ELSE EmptyHash] :
            f \in [asked -> Rows(m)]}

Init ==
    /\ modulus \in Moduli
    /\ maj_to_reduce \in Worklists
    /\ worklist = maj_to_reduce
    /\ matrix \in Oracles(modulus, worklist)
    /\ min_to_reduce \in SUBSET MinKeys
    /\ rowoper = << >>
    /\ minkey_2_index = EmptyHash
    /\ majkey_2_index = EmptyHash
    /\ index_2_majkey = << >>
    /\ index_2_minkey = << >>
    /\ ordered_minind = << >>
    /\ heap_reduced = EmptyBag
    /\ heap_rowoper = EmptyBag
    /\ hash_reduced = EmptyHash
    /\ hash_rowoper = EmptyHash
    /\ row_reduced = EmptyHash
    /\ row_rowoper = EmptyHash
    /\ majkey = 0
    /\ scale = 0
    /\ pc = "outer"
    /\ step = [kind |-> "init", minkey |-> 0, leading_entry |-> 0, lead |-> 0]
    /\ pre = NoPre

inputs == << modulus, matrix, worklist, min_to_reduce >>
indexing == << minkey_2_index, majkey_2_index, index_2_majkey, index_2_minkey >>

-----------------------------------------------------------------------------
(* Steps *)

(* while let Some(majkey) = maj_to_reduce.pop(): clear and load the restricted row *)
PopMajor ==
    /\ pc = "outer"
    /\ maj_to_reduce # << >>
    /\ LET key == Pop(maj_to_reduce).key
       IN  /\ majkey' = key
           /\ maj_to_reduce' = Pop(maj_to_reduce).rest
           /\ \E rowseq \in Drain(matrix[key]) :
                 LET loaded == LoadRow(EmptyBag, EmptyHash, rowseq)
                 IN  /\ heap_reduced' = loaded.heap
                     /\ hash_reduced' = loaded.hash
    /\ heap_rowoper' = EmptyBag
    /\ hash_rowoper' = EmptyHash
    /\ pc' = "inner"
    /\ step' = [kind |-> "restrict", minkey |-> 0, leading_entry |-> 0, lead |-> 0]
    /\ UNCHANGED << inputs, indexing, rowoper, ordered_minind, row_reduced,
                    row_rowoper, scale, pre >>

(* heap_reduced.pop() yields None: the major key reduced to zero *)
InnerExhausted ==
    /\ pc = "inner"
    /\ heap_reduced = EmptyBag
    /\ pc' = "outer"
    /\ step' = [kind |-> "exhausted", minkey |-> 0, leading_entry |-> 0,
                lead |-> step.lead]
    /\ UNCHANGED << inputs, maj_to_reduce, indexing, rowoper, ordered_minind,
                    heap_reduced, heap_rowoper, hash_reduced, hash_rowoper,
                    row_reduced, row_rowoper, majkey, scale, pre >>

(* the popped key is no longer in hash_reduced *)
SkipStale ==
    /\ pc = "inner"
    /\ heap_reduced # EmptyBag
    /\ Peek(heap_reduced) \notin DOMAIN hash_reduced
    /\ heap_reduced' = PopMin(heap_reduced)
    /\ step' = [kind |-> "stale", minkey |-> Peek(heap_reduced), leading_entry |-> 0,
                lead |-> step.lead]
    /\ UNCHANGED << inputs, maj_to_reduce, indexing, rowoper, ordered_minind,
                    heap_rowoper, hash_reduced, hash_rowoper,
                    row_reduced, row_rowoper, majkey, scale, pc, pre >>

(* the leading entry is zero: continue *)
SkipZero ==
    /\ pc = "inner"
    /\ heap_reduced # EmptyBag
    /\ LET minkey == Peek(heap_reduced)
       IN  /\ minkey \in DOMAIN hash_reduced
           /\ is_0(hash_reduced[minkey])
           /\ heap_reduced' = PopMin(heap_reduced)
           /\ hash_reduced' = Remove(hash_reduced, minkey)
           /\ step' = [kind |-> "zero", minkey |-> minkey,
                       leading_entry |-> hash_reduced[minkey], lead |-> step.lead]
    /\ UNCHANGED << inputs, maj_to_reduce, indexing, rowoper, ordered_minind,
                    heap_rowoper, hash_rowoper,
                    row_reduced, row_rowoper, majkey, scale, pc, pre >>

(* the leading key is already a pivot: reconstruct its row and eliminate *)
Eliminate ==
    /\ pc = "inner"
    /\ heap_reduced # EmptyBag
    /\ LET minkey == Peek(heap_reduced)
           heap == PopMin(heap_reduced)
       IN
       /\ minkey \in DOMAIN hash_reduced
       /\ ~ is_0(hash_reduced[minkey])
       /\ minkey \in DOMAIN minkey_2_index
       /\ LET leading_entry == hash_reduced[minkey]
              hash == Remove(hash_reduced, minkey)
              index == minkey_2_index[minkey]
              oprow == maj_hash(index)
          IN
          IF IndexOutOfBounds(oprow)
          THEN /\ pc' = "panic"
               /\ heap_reduced' = heap
               /\ hash_reduced' = hash
               /\ row_rowoper' = oprow
               /\ row_reduced' = EmptyHash
               /\ step' = [kind |-> "panic", minkey |-> minkey,
                           leading_entry |-> leading_entry, lead |-> minkey]
               /\ UNCHANGED << heap_rowoper, hash_rowoper, scale, pre >>
          ELSE
          \E opseq \in Drain(oprow) :
            LET row == ReconstructRow(EmptyHash, opseq) IN
            IF minkey \notin DOMAIN row
            THEN /\ heap_reduced' = heap
                 /\ hash_reduced' = hash
                 /\ row_rowoper' = oprow
                 /\ row_reduced' = row
                 /\ step' = [kind |-> "nodominator", minkey |-> minkey,
                             leading_entry |-> leading_entry, lead |-> minkey]
                 /\ UNCHANGED << heap_rowoper, hash_rowoper, scale, pc, pre >>
            ELSE
            LET dominator == row[minkey]
                rest == Remove(row, minkey)
            IN
            IF ScaleOption(leading_entry, dominator) = << >>
            THEN /\ heap_reduced' = heap
                 /\ hash_reduced' = hash
                 /\ row_rowoper' = oprow
                 /\ row_reduced' = rest
                 /\ step' = [kind |-> "noinverse", minkey |-> minkey,
                             leading_entry |-> leading_entry, lead |-> minkey]
                 /\ UNCHANGED << heap_rowoper, hash_rowoper, scale, pc, pre >>
            ELSE
            \E rowseq \in Drain(rest), oprowseq \in Drain(oprow) :
              LET sc == ScaleOption(leading_entry, dominator)[1]
                  reduced == update_heap_hash(heap, hash, rowseq, sc)
                  oper == update_heap_hash(heap_rowoper, hash_rowoper, oprowseq, sc)
              IN  /\ scale' = sc
                  /\ heap_reduced' = reduced.heap
                  /\ hash_reduced' = reduced.hash
                  /\ heap_rowoper' = oper.heap
                  /\ hash_rowoper' = oper.hash
                  /\ row_reduced' = EmptyHash
                  /\ row_rowoper' = EmptyHash
                  /\ pre' = [heap |-> heap, hash |-> hash, row |-> rest,
                             oprow |-> oprow, ophash |-> hash_rowoper]
                  /\ step' = [kind |-> "eliminate", minkey |-> minkey,
                              leading_entry |-> leading_entry, lead |-> minkey]
                  /\ UNCHANGED pc
    /\ UNCHANGED << inputs, maj_to_reduce, indexing, rowoper, ordered_minind, majkey >>

(* the leading key is not yet a pivot: record it and append the row *)
NewPivot ==
    /\ pc = "inner"
    /\ heap_reduced # EmptyBag
    /\ LET minkey == Peek(heap_reduced)
       IN  /\ minkey \in DOMAIN hash_reduced
           /\ ~ is_0(hash_reduced[minkey])
           /\ minkey \notin DOMAIN minkey_2_index
           /\ heap_reduced' = PopMin(heap_reduced)
           /\ hash_reduced' = Remove(hash_reduced, minkey)
           /\ minkey_2_index' = Insert(minkey_2_index, minkey, nummaj)
           /\ majkey_2_index' = Insert(majkey_2_index, majkey, nummaj)
           /\ index_2_majkey' = Append(index_2_majkey, majkey)
           /\ index_2_minkey' = Append(index_2_minkey, minkey)
           /\ rowoper' = Append(rowoper, PivotRow(hash_rowoper, nummaj))
           /\ hash_rowoper' = EmptyHash
           /\ step' = [kind |-> "pivot", minkey |-> minkey,
                       leading_entry |-> hash_reduced[minkey], lead |-> minkey]
    /\ pc' = "outer"
    /\ UNCHANGED << inputs, maj_to_reduce, ordered_minind, heap_rowoper,
                    row_reduced, row_rowoper, majkey, scale, pre >>

(* the worklist is empty: order the minor keys and return *)
PostPass ==
    /\ pc = "outer"
    /\ maj_to_reduce = << >>
    /\ ordered_minind' = PopAll(PushAll(EmptyBag, index_2_minkey), ordered_minind)
    /\ heap_reduced' = EmptyBag
    /\ pc' = "done"
    /\ step' = [kind |-> "return", minkey |-> 0, leading_entry |-> 0,
                lead |-> step.lead]
    /\ UNCHANGED << inputs, maj_to_reduce, indexing, rowoper, heap_rowoper,
                    hash_reduced, hash_rowoper, row_reduced, row_rowoper,
                    majkey, scale, pre >>

Next ==
    \/ PopMajor
    \/ InnerExhausted
    \/ SkipStale
    \/ SkipZero
    \/ Eliminate
    \/ NewPivot
    \/ PostPass

Spec == Init /\ [][Next]_vars

-----------------------------------------------------------------------------
(* Properties of the Indexing and the Output Matrix *)

Indices == 0..(nummaj - 1)

AtBoundary == pc \in {"outer", "done"}

Injective(f) == \A a, b \in DOMAIN f : f[a] = f[b] => a = b

Bijective ==
    /\ Len(index_2_majkey) = nummaj
    /\ Len(index_2_minkey) = nummaj
    /\ \A i \in Indices :
          /\ index_2_minkey[i + 1] \in DOMAIN minkey_2_index
          /\ minkey_2_index[index_2_minkey[i + 1]] = i
          /\ index_2_majkey[i + 1] \in DOMAIN majkey_2_index
          /\ majkey_2_index[index_2_majkey[i + 1]] = i
    /\ Injective(minkey_2_index)
    /\ Injective(majkey_2_index)

(* C1: at every outer-loop boundary and on return, the forward maps invert
   the backward sequences on every recorded index and no index belongs to
   two major keys or to two minor keys. *)
C1_BijectionIntegrity == AtBoundary => Bijective

(* C1 restricted to fields: the same statement when every nonzero element
   of the ring is invertible. *)
C1_BijectionInField == (AtBoundary /\ IsField) => Bijective

(* a major key was pivoted a second time *)
C1_SecondPivotOfMajor ==
    /\ AtBoundary
    /\ \E i, j \in Indices : i # j /\ index_2_majkey[i + 1] = index_2_majkey[j + 1]

(* C2: every Output Matrix row i holds the self-entry 1 at index i and
   otherwise only indices strictly smaller than i. *)
C2_Triangularity ==
    \A i \in Indices :
        /\ i \in DOMAIN rowoper[i + 1]
        /\ rowoper[i + 1][i] = 1
        /\ \A j \in DOMAIN rowoper[i + 1] : j <= i

(* a row that records a combination of two earlier rows *)
C2_RowWithCombination ==
    \E i \in Indices : Cardinality(DOMAIN rowoper[i + 1]) >= 3

(* the coefficient at minor key k of the oracle row of index j, restricted
   to the active minor set *)
EntryAt(j, k) ==
    LET row == matrix[index_2_majkey[j + 1]]
    IN  IF k \in min_to_reduce /\ k \in DOMAIN row THEN row[k] ELSE 0

(* the coefficient at minor key k of the sum of c times the restricted
   oracle row of index j over the entries (j, c) in S of the row oprow *)
RECURSIVE CombinationAt(_, _, _)
CombinationAt(oprow, S, k) ==
    IF S = {} THEN 0
    ELSE LET j == CHOOSE x \in S : TRUE
         IN  (oprow[j] * EntryAt(j, k) + CombinationAt(oprow, S \ {j}, k)) % modulus

Support(i) ==
    {k \in MinKeys : CombinationAt(rowoper[i + 1], DOMAIN rowoper[i + 1], k) # 0}

(* C3: over a field, the combination that Output Matrix row i records is a
   nonzero row whose smallest key is the pivot's minor key. *)
C3_Reconstruction ==
    IsField =>
        \A i \in Indices :
            /\ Support(i) # {}
            /\ index_2_minkey[i + 1] \in Support(i)
            /\ \A k \in Support(i) : index_2_minkey[i + 1] <= k

(* over the field of three elements, a pivot whose row was reduced by an
   earlier pivot with the scale 2 *)
C3_ReducedPivot ==
    /\ modulus = 3
    /\ \E i \in Indices : \E j \in DOMAIN rowoper[i + 1] :
            j < i /\ rowoper[i + 1][j] = 2

(* C4: over a field, the already-pivoted branch always finds a dominator
   and inverts it. *)
C4_DominatorInverted ==
    IsField => step.kind \notin {"nodominator", "noinverse"}

(* over a field, an elimination against a pivot whose recorded row holds a
   coefficient other than 1 *)
C4_EliminatedInField ==
    /\ IsField
    /\ step.kind = "eliminate"
    /\ \E k \in DOMAIN pre.oprow : pre.oprow[k] # 1

-----------------------------------------------------------------------------
(* The end-to-end scenario: minor keys x = 1 < y = 2, major keys A = 1 with
   the row {x: 1, y: 1} and B = 2 with the row {x: 1}, modulus 2, worklist
   [B, A], active minors {x, y}. *)

Scenario ==
    /\ modulus = 2
    /\ matrix[1] = [k \in {1, 2} |-> 1]
    /\ matrix[2] = [k \in {1} |-> 1]
    /\ worklist = << 2, 1 >>
    /\ min_to_reduce = {1, 2}

(* C5 as stated: the scenario returns index 0 = (B, x), index 1 = (A, y)
   and the ascending permutation [0, 1]. *)
C5_ScenarioAsStated ==
    (Scenario /\ pc = "done") =>
        /\ index_2_majkey = << 2, 1 >>
        /\ index_2_minkey = << 1, 2 >>
        /\ majkey_2_index = [k \in {1, 2} |-> IF k = 2 THEN 0 ELSE 1]
        /\ minkey_2_index = [k \in {1, 2} |-> k - 1]
        /\ ordered_minind = << 0, 1 >>

(* C5 amended: the worklist [B, A] pops A first, so the scenario returns
   index 0 = (A, x), index 1 = (B, y) and the ascending permutation [0, 1]. *)
C5_ScenarioLastFirst ==
    (Scenario /\ pc = "done") =>
        /\ index_2_majkey = << 1, 2 >>
        /\ index_2_minkey = << 1, 2 >>
        /\ majkey_2_index = [k \in {1, 2} |-> k - 1]
        /\ minkey_2_index = [k \in {1, 2} |-> k - 1]
        /\ ordered_minind = << 0, 1 >>
        /\ rowoper = << [k \in {0} |-> 1], [k \in {0, 1} |-> 1] >>

(* the scenario has run to its return *)
C5_ScenarioReturned == Scenario /\ pc = "done" /\ nummaj = 2

-----------------------------------------------------------------------------
(* Termination *)

FairSpec == Init /\ [][Next]_vars /\ WF_vars(Next)

Returned ==
    /\ pc = "done"
    /\ maj_to_reduce = << >>
    /\ Len(index_2_majkey) = nummaj
    /\ Len(index_2_minkey) = nummaj
    /\ Len(ordered_minind) = nummaj

(* C6: every run, over a field or not, never panics and ends returned with
   the worklist empty and an Output Matrix and an Indexing of equal size. *)
C6_Terminates == [](pc # "panic") /\ <>[]Returned

(* a run over a ring that is no field that drained a full worklist and
   returned with at least two pivots *)
C6_ReturnedOverNonField ==
    /\ Returned
    /\ ~ IsField
    /\ nummaj >= 2
    /\ Len(worklist) = MaxWork

-----------------------------------------------------------------------------
(* The active minor set *)

(* C7: the keys of the working accumulator (hash and heap), of the
   reconstructed row (as left in row_reduced and as merged) and of the
   Indexing's minor side all belong to the active minor set. *)
C7_ActiveRestriction ==
    /\ DOMAIN hash_reduced \subseteq min_to_reduce
    /\ HeapKeys(heap_reduced) \subseteq min_to_reduce
    /\ DOMAIN row_reduced \subseteq min_to_reduce
    /\ DOMAIN pre.row \subseteq min_to_reduce
    /\ DOMAIN minkey_2_index \subseteq min_to_reduce
    /\ \A i \in 1..Len(index_2_minkey) : index_2_minkey[i] \in min_to_reduce

(* an elimination against a pivot row and a current row that both hold a
   key outside the active set *)
C7_InactiveEntriesMet ==
    /\ step.kind \in {"eliminate", "noinverse"}
    /\ \E k \in DOMAIN matrix[majkey] : k \notin min_to_reduce
    /\ \E i \in Indices : \E k \in DOMAIN matrix[index_2_majkey[i + 1]] :
            k \notin min_to_reduce

(* C8: with an empty active minor set the call returns no rows, no major
   keys, no minor keys and an empty ascending permutation. *)
C8_EmptyActiveSet ==
    (min_to_reduce = {} /\ pc = "done") =>
        /\ rowoper = << >>
        /\ minkey_2_index = EmptyHash
        /\ majkey_2_index = EmptyHash
        /\ index_2_majkey = << >>
        /\ index_2_minkey = << >>
        /\ ordered_minind = << >>

(* a return from an empty active set after a full worklist of nonempty rows *)
C8_EmptyActiveReturned ==
    /\ min_to_reduce = {}
    /\ pc = "done"
    /\ Len(worklist) = MaxWork
    /\ \A i \in 1..Len(worklist) : Cardinality(DOMAIN matrix[worklist[i]]) = MaxRowLen

-----------------------------------------------------------------------------
(* update_heap_hash on its own: any accumulator, any source row, any scale *)

Residues(m) == {e % m : e \in 0..MaxEntry}

Hashes(m) == UNION {[S -> Residues(m)] : S \in SUBSET MinKeys}

MergeInit ==
    /\ modulus \in Moduli
    /\ hash_reduced \in Hashes(modulus)
    /\ heap_reduced \in {SetToBag(S) : S \in SUBSET MinKeys}
    /\ row_reduced \in Hashes(modulus)
    /\ scale \in 0..(modulus - 1)
    /\ pc = "merge"
    /\ matrix = [m \in MajKeys |-> EmptyHash]
    /\ maj_to_reduce = << >>
    /\ worklist = << >>
    /\ min_to_reduce = MinKeys
    /\ rowoper = << >>
    /\ minkey_2_index = EmptyHash
    /\ majkey_2_index = EmptyHash
    /\ index_2_majkey = << >>
    /\ index_2_minkey = << >>
    /\ ordered_minind = << >>
    /\ heap_rowoper = EmptyBag
    /\ hash_rowoper = EmptyHash
    /\ row_rowoper = EmptyHash
    /\ majkey = 0
    /\ step = [kind |-> "init", minkey |-> 0, leading_entry |-> 0, lead |-> 0]
    /\ pre = NoPre

MergeCall ==
    /\ pc = "merge"
    /\ \E rowseq \in Drain(row_reduced) :
          LET merged == update_heap_hash(heap_reduced, hash_reduced, rowseq, scale)
          IN  /\ heap_reduced' = merged.heap
              /\ hash_reduced' = merged.hash
    /\ row_reduced' = EmptyHash
    /\ pre' = [heap |-> heap_reduced, hash |-> hash_reduced, row |-> row_reduced,
               oprow |-> EmptyHash, ophash |-> EmptyHash]
    /\ pc' = "merged"
    /\ step' = [kind |-> "merge", minkey |-> 0, leading_entry |-> 0, lead |-> 0]
    /\ UNCHANGED << inputs, maj_to_reduce, indexing, rowoper, ordered_minind,
                    heap_rowoper, hash_rowoper, row_rowoper, majkey, scale >>

MergeSpec == MergeInit /\ [][MergeCall]_vars

(* the factorization and the merge on its own, side by side *)
CoverInit == Init \/ MergeInit

CoverNext == Next \/ MergeCall

CoverSpec == CoverInit /\ [][CoverNext]_vars

NoZeroValues(hash) == \A k \in DOMAIN hash : ~ is_0(hash[k])

ValueAt(hash, k) == IF k \in DOMAIN hash THEN hash[k] ELSE 0

(* the coefficient of accumulator + scale * source_row at key k *)
SumAt(k) == (ValueAt(pre.hash, k) + scale * ValueAt(pre.row, k)) % modulus

(* C9: after update_heap_hash on an accumulator without zero values, the
   hash holds exactly the keys where accumulator + scale * source_row is
   nonzero, each with that value, and the source row is empty. *)
C9_MergeResult ==
    (pc = "merged" /\ NoZeroValues(pre.hash)) =>
        /\ DOMAIN hash_reduced = {k \in MinKeys : SumAt(k) # 0}
        /\ \A k \in DOMAIN hash_reduced : hash_reduced[k] = SumAt(k)
        /\ row_reduced = EmptyHash

(* a merge that cancelled one key, changed another and inserted a third *)
C9_MergedAllCases ==
    /\ pc = "merged"
    /\ NoZeroValues(pre.hash)
    /\ \E k \in DOMAIN pre.hash : k \in DOMAIN pre.row /\ k \notin DOMAIN hash_reduced
    /\ \E k \in DOMAIN pre.hash : k \in DOMAIN hash_reduced /\ hash_reduced[k] # pre.hash[k]
    /\ \E k \in DOMAIN hash_reduced : k \notin DOMAIN pre.hash

Covered(hash, heap) == DOMAIN hash \subseteq HeapKeys(heap)

(* C10: update_heap_hash keeps every key of the hash in the heap when it
   found it so, and at every boundary of the inner loop every key of
   hash_reduced is in heap_reduced. *)
C10_HeapCover ==
    /\ (pc = "merged" /\ Covered(pre.hash, pre.heap)) =>
            Covered(hash_reduced, heap_reduced)
    /\ pc = "inner" => Covered(hash_reduced, heap_reduced)

(* an elimination whose merge brought a new key into the working accumulator *)
C10_KeyInsertedByElimination ==
    /\ pc = "inner"
    /\ step.kind = "eliminate"
    /\ \E k \in DOMAIN hash_reduced : k \notin DOMAIN pre.hash

-----------------------------------------------------------------------------
(* The inner loop's choice of the leading entry *)

LeadKinds == {"eliminate", "nodominator", "noinverse", "pivot"}

LiveKeys(hash) == {k \in DOMAIN hash : ~ is_0(hash[k])}

(* C11: every key handled as a leading entry (eliminated against a pivot
   or made a new pivot) is, when popped, in hash_reduced with a nonzero
   value and is the smallest key that hash_reduced holds with a nonzero
   value; a key that was cancelled and not re-added is not in the hash and
   so is never handled. *)
C11_SmallestLiveKey ==
    [][(pc = "inner" /\ step'.kind \in LeadKinds) =>
          /\ step'.minkey \in LiveKeys(hash_reduced)
          /\ step'.leading_entry = hash_reduced[step'.minkey]
          /\ \A k \in LiveKeys(hash_reduced) : step'.minkey <= k]_vars

(* a leading entry was eliminated and the merge cancelled a key of the
   accumulator, which stays in the heap as a stale entry *)
C11_CancelledKeyLeftInHeap ==
    /\ pc = "inner"
    /\ step.kind = "eliminate"
    /\ \E k \in HeapKeys(heap_reduced) :
          k \in DOMAIN pre.hash /\ k \notin DOMAIN hash_reduced

-----------------------------------------------------------------------------
(* A dominator without inverse *)

(* the dominator of the pivot row of minor key k: the coefficient at k of
   the combination its Output Matrix row records *)
DominatorOf(k) ==
    LET i == minkey_2_index[k]
    IN  CombinationAt(rowoper[i + 1], DOMAIN rowoper[i + 1], k)

(* the next pop meets a pivoted nonzero leading entry whose dominator has
   no inverse *)
NonInvertibleCase ==
    /\ pc = "inner"
    /\ heap_reduced # EmptyBag
    /\ Peek(heap_reduced) \in LiveKeys(hash_reduced)
    /\ Peek(heap_reduced) \in DOMAIN minkey_2_index
    /\ DominatorOf(Peek(heap_reduced)) # 0
    /\ inverse(DominatorOf(Peek(heap_reduced))) = << >>

(* C12: when the leading key is pivoted and its dominator has no inverse,
   the step removes only the leading entry from hash_reduced, leaves
   hash_rowoper, the Output Matrix and the Indexing as they were, and the
   inner loop goes on without an error. *)
C12_NonInvertibleDropped ==
    [][NonInvertibleCase =>
          /\ hash_reduced' = Remove(hash_reduced, Peek(heap_reduced))
          /\ heap_reduced' = PopMin(heap_reduced)
          /\ hash_rowoper' = hash_rowoper
          /\ rowoper' = rowoper
          /\ UNCHANGED << indexing, ordered_minind >>
          /\ pc' = "inner"
          /\ step'.kind = "noinverse"]_vars

(* a leading entry dropped for want of an inverse, after an earlier
   elimination of the same major key, with entries left in the accumulator *)
C12_DroppedAfterElimination ==
    /\ step.kind = "noinverse"
    /\ hash_reduced # EmptyHash
    /\ hash_rowoper # EmptyHash

-----------------------------------------------------------------------------
(* The ascending permutation *)

(* C13: on return ordered_minind holds every index of [0, n) once, in
   strictly increasing order of the minor keys; before the return it is
   empty. *)
C13_AscendingPermutation ==
    /\ pc # "done" => ordered_minind = << >>
    /\ pc = "done" =>
          /\ Len(ordered_minind) = Len(index_2_minkey)
          /\ {ordered_minind[p] : p \in 1..Len(ordered_minind)}
                = 0..(Len(index_2_minkey) - 1)
          /\ \A p, q \in 1..Len(ordered_minind) :
                p < q => index_2_minkey[ordered_minind[p] + 1]
                            < index_2_minkey[ordered_minind[q] + 1]

(* a return with three pivots whose discovery order is not the key order *)
C13_ReturnedOutOfKeyOrder ==
    /\ pc = "done"
    /\ Len(ordered_minind) = 3
    /\ ordered_minind # << 0, 1, 2 >>

-----------------------------------------------------------------------------
(* Append-only output *)

IsPrefix(a, b) == Len(a) <= Len(b) /\ \A i \in 1..Len(a) : a[i] = b[i]

Extends(f, g) == DOMAIN f \subseteq DOMAIN g /\ \A k \in DOMAIN f : g[k] = f[k]

(* C14: every step keeps the rows already appended and the Indexing
   entries already recorded, and appends at most one row, at the next
   index. *)
C14_AppendOnly ==
    [][/\ IsPrefix(rowoper, rowoper')
       /\ Len(rowoper') <= Len(rowoper) + 1
       /\ IsPrefix(index_2_majkey, index_2_majkey')
       /\ IsPrefix(index_2_minkey, index_2_minkey')
       /\ Len(index_2_majkey') = Len(rowoper')
       /\ Len(index_2_minkey') = Len(rowoper')
       /\ Extends(minkey_2_index, minkey_2_index')
       /\ Extends(majkey_2_index, majkey_2_index')
       /\ IsPrefix(ordered_minind, ordered_minind')]_vars

(* C14 without the forward map of the major keys: rows, backward sequences
   and the minor-key map only grow. *)
C14_AppendOnlyButMajorMap ==
    [][/\ IsPrefix(rowoper, rowoper')
       /\ Len(rowoper') <= Len(rowoper) + 1
       /\ IsPrefix(index_2_majkey, index_2_majkey')
       /\ IsPrefix(index_2_minkey, index_2_minkey')
       /\ Len(index_2_majkey') = Len(rowoper')
       /\ Len(index_2_minkey') = Len(rowoper')
       /\ Extends(minkey_2_index, minkey_2_index')
       /\ IsPrefix(ordered_minind, ordered_minind')]_vars

(* C14 over a field *)
C14_AppendOnlyInField ==
    [][IsField => Extends(majkey_2_index, majkey_2_index')]_vars

-----------------------------------------------------------------------------
(* Zero reduction *)

(* the coefficient at minor key k of the restricted oracle row of a major key *)
RowAt(key, k) ==
    IF k \in min_to_reduce /\ k \in DOMAIN matrix[key] THEN matrix[key][k] % modulus
    ELSE 0

RECURSIVE SpanAt(_, _, _)
SpanAt(c, S, k) ==
    IF S = {} THEN 0
    ELSE LET j == CHOOSE x \in S : TRUE
         IN  (c[j] * RowAt(index_2_majkey[j + 1], k) + SpanAt(c, S \ {j}, k)) % modulus

(* the restricted row of the major key is a linear combination of the
   restricted rows of the major keys pivoted at the indices of S *)
InSpan(key, S) ==
    \E c \in [S -> 0..(modulus - 1)] :
        \A k \in MinKeys : SpanAt(c, S, k) = RowAt(key, k)

(* C15: over a field, a popped major key records no pivot exactly when
   its restricted row is a linear combination of the restricted rows of
   the major keys pivoted before it; so no major key is pivoted twice. *)
C15_ZeroReduction ==
    IsField =>
        /\ step.kind = "exhausted" => InSpan(majkey, Indices)
        /\ step.kind = "pivot" => ~ InSpan(majkey, 0..(nummaj - 2))
        /\ \A i, j \in Indices :
              index_2_majkey[i + 1] = index_2_majkey[j + 1] => i = j

(* over the field of three elements, a major key met for the first time
   whose nonzero row reduced to zero against two pivots *)
C15_DependentRowReduced ==
    /\ modulus = 3
    /\ step.kind = "exhausted"
    /\ nummaj = 2
    /\ \A i \in Indices : index_2_majkey[i + 1] # majkey
    /\ \E k \in MinKeys : RowAt(majkey, k) # 0
    /\ \A S \in SUBSET Indices : S # Indices => ~ InSpan(majkey, S)

-----------------------------------------------------------------------------
(* Worklist order *)

(* the number of major keys popped so far *)
Popped == Len(worklist) - Len(maj_to_reduce)

(* the p-th major key popped: the worklist read from its end *)
PopOrder(p) == worklist[Len(worklist) + 1 - p]

(* C16: major keys are processed from the last element of the worklist to
   the first, and the pivots, in index order, belong to pops in
   increasing order, one pivot at most for each pop. *)
C16_WorklistOrder ==
    /\ Popped > 0 => majkey = PopOrder(Popped)
    /\ maj_to_reduce = SubSeq(worklist, 1, Len(maj_to_reduce))
    /\ \E f \in [1..nummaj -> 1..Popped] :
          /\ \A i, j \in 1..nummaj : i < j => f[i] < f[j]
          /\ \A i \in 1..nummaj : index_2_majkey[i] = PopOrder(f[i])

(* a return where the first pop left no pivot and two later pops of other
   major keys did *)
C16_PivotsAfterZeroRow ==
    /\ pc = "done"
    /\ nummaj = 2
    /\ Len(worklist) = 3
    /\ index_2_majkey = << PopOrder(2), PopOrder(3) >>
    /\ PopOrder(2) # PopOrder(3)

-----------------------------------------------------------------------------
(* Iteration-order independence *)

(* every order in which the oracle can yield the row of the popped major
   key loads the accumulator the step loaded *)
LoadAnyOrder ==
    (pc = "outer" /\ maj_to_reduce # << >>) =>
        \A rowseq \in Drain(matrix[Pop(maj_to_reduce).key]) :
            LoadRow(EmptyBag, EmptyHash, rowseq)
                = [heap |-> heap_reduced', hash |-> hash_reduced']

(* the step taken on the leading key is the one that the reconstructed
   row `row` prescribes, for every order of the two drains *)
OutcomeWith(row) ==
    LET minkey == Peek(heap_reduced)
        heap == PopMin(heap_reduced)
        hash == Remove(hash_reduced, minkey)
        leading_entry == hash_reduced[minkey]
        oprow == maj_hash(minkey_2_index[minkey])
    IN  IF step'.kind = "nodominator" THEN minkey \notin DOMAIN row
        ELSE
        /\ minkey \in DOMAIN row
        /\ IF step'.kind = "noinverse"
           THEN ScaleOption(leading_entry, row[minkey]) = << >>
           ELSE
           /\ ScaleOption(leading_entry, row[minkey]) # << >>
           /\ LET sc == ScaleOption(leading_entry, row[minkey])[1] IN
              /\ \A rowseq \in Drain(Remove(row, minkey)) :
                    update_heap_hash(heap, hash, rowseq, sc)
                        = [heap |-> heap_reduced', hash |-> hash_reduced']
              /\ \A oprowseq \in Drain(oprow) :
                    update_heap_hash(heap_rowoper, hash_rowoper, oprowseq, sc)
                        = [heap |-> heap_rowoper', hash |-> hash_rowoper']

(* every order of the reconstruction loop and of the two drains gives the
   outcome and the accumulators the step gave *)
EliminateAnyOrder ==
    (pc = "inner" /\ step'.kind \in {"nodominator", "noinverse", "eliminate"}) =>
        \A opseq \in Drain(maj_hash(minkey_2_index[Peek(heap_reduced)])) :
            OutcomeWith(ReconstructRow(EmptyHash, opseq))

(* C17: the result of every step on the worklist, the accumulators, the
   Output Matrix and the Indexing is the same for every order in which
   the oracle row is yielded, the stored row is iterated in the
   reconstruction loop, and the source rows are drained in update_heap_hash;
   so the returned Output Matrix and Indexing depend on the inputs alone. *)
C17_OrderIndependence ==
    [][LoadAnyOrder /\ EliminateAnyOrder]_vars

(* an elimination against a pivot whose stored row has two entries: the
   reconstruction loop and the drain of the stored row each had two
   orders, and the rebuilt row was merged into a nonempty accumulator *)
C17_MergedInSeveralOrders ==
    /\ step.kind = "eliminate"
    /\ Cardinality(DOMAIN pre.oprow) >= 2
    /\ pre.row # EmptyHash
    /\ pre.hash # EmptyHash

-----------------------------------------------------------------------------
(* Monotone elimination *)

(* C18: over a field, the nonzero leading keys handled for one major key
   are strictly increasing, and an elimination inserts into the working
   accumulator and its heap only keys greater than the leading key. *)
C18_MonotoneElimination ==
    [][IsField =>
         /\ (pc = "inner" /\ step'.kind \in LeadKinds) => step'.minkey > step.lead
         /\ step'.kind = "eliminate" /\ pc = "inner" =>
              /\ \A k \in DOMAIN hash_reduced' \ DOMAIN hash_reduced :
                    k > step'.minkey
              /\ \A k \in HeapKeys(heap_reduced') :
                    CopiesIn(k, heap_reduced') > CopiesIn(k, heap_reduced) =>
                        k > step'.minkey]_vars

(* over a field, the second elimination for one major key inserted a key
   into the working accumulator *)
C18_SecondEliminationInserted ==
    /\ IsField
    /\ step.kind = "eliminate"
    /\ pre.ophash # EmptyHash
    /\ DOMAIN hash_reduced \ DOMAIN pre.hash # {}

-----------------------------------------------------------------------------
(* Independence from inactive columns *)

(* the oracle with every entry outside the active minor set erased: what
   all oracles that agree on the active set have in common *)
Erased ==
    [key \in MajKeys |->
        [k \in {j \in DOMAIN matrix[key] : j \in min_to_reduce} |-> matrix[key][k]]]

(* the accumulator loaded with every entry of a row, in the order rowseq *)
RECURSIVE LoadAll(_, _, _)
LoadAll(heap, hash, rowseq) ==
    IF rowseq = << >> THEN [heap |-> heap, hash |-> hash]
    ELSE LoadAll(Push(heap, rowseq[1][1]),
                 Insert(hash, rowseq[1][1], rowseq[1][2]), Tail(rowseq))

(* the row rebuilt from the rows of the erased oracle *)
RECURSIVE ErasedReconstruct(_, _)
ErasedReconstruct(acc, opseq) ==
    IF opseq = << >> THEN acc
    ELSE ErasedReconstruct(
             add_assign_hash(acc, Erased[index_2_majkey[opseq[1][1] + 1]], opseq[1][2]),
             Tail(opseq))

LoadFromActive ==
    (pc = "outer" /\ maj_to_reduce # << >>) =>
        \A rowseq \in Drain(Erased[Pop(maj_to_reduce).key]) :
            LoadAll(EmptyBag, EmptyHash, rowseq)
                = [heap |-> heap_reduced', hash |-> hash_reduced']

EliminateFromActive ==
    (pc = "inner" /\ step'.kind \in {"nodominator", "noinverse", "eliminate"}) =>
        \A opseq \in Drain(maj_hash(minkey_2_index[Peek(heap_reduced)])) :
            OutcomeWith(ErasedReconstruct(EmptyHash, opseq))

(* C19: every step that reads the oracle gives the result computed from
   the entries at active minor keys alone; the other steps do not read the
   oracle.  Two oracles that agree on the active set therefore go through
   the same accumulators, Output Matrix and Indexing, step by step. *)
C19_InactiveColumnsIgnored ==
    [][LoadFromActive /\ EliminateFromActive]_vars

(* an elimination where the current row stores an inactive key below the
   leading key and the row of a pivoted major key stores an inactive key
   as well *)
C19_EliminatedBesideInactive ==
    /\ step.kind = "eliminate"
    /\ \E k \in DOMAIN matrix[majkey] : k \notin min_to_reduce /\ k < step.minkey
    /\ \E i \in DOMAIN pre.oprow :
          \E k \in DOMAIN matrix[index_2_majkey[i + 1]] : k \notin min_to_reduce

====
